---- MODULE Spec2Model ----
(***************************************************************************)
(* Model of brevo_all_use_cases.py: the use-case functions (one HTTP       *)
(* request each, through httpx), the step wrapper _safe_run and the        *)
(* runner run_all.                                                         *)
(*                                                                         *)
(* Strings that the code searches ("@" in email, "example" in email) are   *)
(* sequences of tokens; `x in s` is membership of the token in s.          *)
(* Python's None is the string None below; a JSON value is a record        *)
(* [type, keys, nulls, items], JSON null being the value JNull, which is   *)
(* what Python's None is after response.json().                            *)
(***************************************************************************)
EXTENDS Integers, Sequences, FiniteSets, TLC

VARIABLES
    API_KEY,                  \* module configuration, line 45
    DEFAULT_SENDER_EMAIL,     \* line 49
    DEFAULT_RECIPIENT_PHONE,  \* line 53
    skip_destructive,         \* run_all's argument
    pc,                       \* position of run_all in its catalogue
    call,                     \* the function call in flight: [fn, args, state]
    openClients,              \* httpx clients inside their `with` block
    requests,                 \* every request handed to the network, in order
    nreq,                     \* requests issued by the current (or last) call
    response,                 \* response received by the last direct call
    result,                   \* how the last call ended: [outcome, exc, ret, icon]
    sender,                   \* run_all's local `sender`
    sender_tuple,             \* run_all's local `sender_tuple`
    events,                   \* start and end of every call made by run_all
    firstFailed,              \* first step whose exception _safe_run caught
    swallowed,                \* exception caught inside _get_first_sender
    fault,                    \* failure raised in the last call before or by its request
    log,                      \* the hints run_all printed
    escaped,                  \* exception that left run_all
    ncalls                    \* direct calls made so far

vars == <<API_KEY, DEFAULT_SENDER_EMAIL, DEFAULT_RECIPIENT_PHONE, skip_destructive,
          pc, call, openClients, requests, nreq, response, result, sender,
          sender_tuple, events, firstFailed, swallowed, fault, log, escaped, ncalls>>

config == <<API_KEY, DEFAULT_SENDER_EMAIL, DEFAULT_RECIPIENT_PHONE, skip_destructive>>

----------------------------------------------------------------------------
(* Bounds of the model *)

MaxSenders == 1     \* longest list of senders in a response body
MaxCalls == 1       \* direct calls of use-case functions in one behaviour

(* Program constants *)

HTTPX_TIMEOUT == 15

----------------------------------------------------------------------------
(* Python values *)

None == "None"

\* truth value of an Optional[str]; of a token string
Truthy(s) == s # None /\ s # ""
NonEmpty(s) == Len(s) > 0

\* `tok in s` on a token string
Contains(tok, s) == \E i \in 1..Len(s) : s[i] = tok

\* values the environment can give the configuration
ApiKeys == {None, "", "xkeysib-1"}
SenderEmails ==
    { <<"hello", "@", "example", ".com">>,      \* the default of line 49
      <<"me", "@", "acme", ".com">>,
      <<"me", "@", "yourdomain", ".com">>,
      <<"nobody">> }
Phones == {None, "", "919876543210"}

DEFAULT_SENDER_NAME == "Your Company"

----------------------------------------------------------------------------
(* JSON values and responses *)

JNull == [type |-> "null", keys |-> {}, nulls |-> {}, items |-> <<>>]
JDict(keys, nulls, items) ==
    [type |-> "dict", keys |-> keys, nulls |-> nulls, items |-> items]
JList(items) == [type |-> "list", keys |-> {}, nulls |-> {}, items |-> items]
EmptyMapping == JDict({}, {}, <<>>)

\* an element of a senders list: a JSON object with an email, or something else
SenderEntries ==
    { [isdict |-> TRUE, email |-> <<"ops", "@", "acme", ".com">>, name |-> "Ops"],
      [isdict |-> TRUE, email |-> <<"ops", "@", "acme", ".com">>, name |-> ""],
      [isdict |-> TRUE, email |-> <<"ops-acme">>, name |-> "Ops"],
      [isdict |-> TRUE, email |-> <<>>, name |-> "Ops"],
      [isdict |-> FALSE, email |-> <<>>, name |-> ""] }

SenderLists == UNION { [1..n -> SenderEntries] : n \in 0..MaxSenders }

\* response bodies: no content, text that is not JSON, or a JSON document
NoContent == [raw |-> "empty", json |-> JNull]
NotJson == [raw |-> "text", json |-> JNull]
Json(v) == [raw |-> "json", json |-> v]

Bodies ==
    { NoContent, NotJson,
      Json(JNull),
      Json(EmptyMapping),
      Json(JList(<<>>)),
      Json(JDict({"code", "message"}, {}, <<>>)),
      Json(JDict({"id"}, {}, <<>>)),
      Json(JDict({"count", "contacts", "templates"}, {}, <<>>)),
      Json(JDict({"count", "contacts", "templates"}, {"contacts", "templates"}, <<>>)) }

SenderBodies ==
    { Json(JDict({"senders"}, {}, l)) : l \in SenderLists }
        \cup { Json(JList(l)) : l \in SenderLists }
        \cup { Json(JDict({"senders"}, {"senders"}, <<>>)) }

Statuses == {200, 201, 204, 301, 400, 401, 404, 500, 502}

NoResponse == [status |-> 0, body |-> NoContent]

\* httpx.Response.is_success
is_success(r) == 200 <= r.status /\ r.status <= 299

\* what the network gives back for one request
Outcomes(bodies) ==
    { [transport |-> TRUE, r |-> NoResponse] }
        \cup { [transport |-> FALSE, r |-> [status |-> s, body |-> b]] :
                   s \in Statuses, b \in bodies }

----------------------------------------------------------------------------
(* Results of a call *)

\* icon: what print_result printed for the response, "" when it was not reached
Returned(v, icon) == [outcome |-> "returned", exc |-> "", ret |-> v, icon |-> icon]
Raised(e) == [outcome |-> "raised", exc |-> e, ret |-> JNull, icon |-> ""]
NoResult == [outcome |-> "none", exc |-> "", ret |-> JNull, icon |-> ""]

ExceptionKinds ==
    {"ValueError", "TypeError", "AttributeError", "JSONDecodeError", "TransportError"}

----------------------------------------------------------------------------
(* The use-case functions *)

EmailFns ==
    {"send_transactional_email_html", "send_transactional_email_text",
     "send_transactional_email_dynamic", "send_transactional_email_with_tags"}

UseCases ==
    EmailFns \cup
    {"get_account", "send_transactional_email_template", "send_transactional_sms",
     "send_whatsapp_message_template", "send_whatsapp_message_text",
     "get_whatsapp_statistics", "create_contact", "get_contact", "get_contacts_list",
     "add_contact_to_list", "get_contact_lists", "get_senders", "create_sender",
     "get_webhooks", "create_webhook", "get_smtp_templates", "activate_ecommerce",
     "track_event", "upsert_custom_object_records", "get_custom_object_records"}

BASE_URL == "https://api.brevo.com"
track_url == "https://in-automate.brevo.com"

Method(fn) ==
    IF fn \in {"get_account", "get_whatsapp_statistics", "get_contact",
               "get_contacts_list", "get_contact_lists", "get_senders",
               "_get_first_sender", "get_webhooks", "get_smtp_templates",
               "get_custom_object_records"}
    THEN "GET" ELSE "POST"

Host(fn) == IF fn = "track_event" THEN track_url ELSE BASE_URL

Path(fn) ==
    CASE fn = "get_account" -> "/v3/account"
      [] fn \in EmailFns \cup {"send_transactional_email_template"} -> "/v3/smtp/email"
      [] fn = "send_transactional_sms" -> "/v3/transactionalSMS/send"
      [] fn \in {"send_whatsapp_message_template", "send_whatsapp_message_text"} ->
             "/v3/whatsapp/sendMessage"
      [] fn = "get_whatsapp_statistics" -> "/v3/whatsapp/statistics/events"
      [] fn \in {"create_contact", "get_contacts_list"} -> "/v3/contacts"
      [] fn = "get_contact" -> "/v3/contacts/{identifier}"
      [] fn = "add_contact_to_list" -> "/v3/contacts/lists/{list_id}/contacts/add"
      [] fn = "get_contact_lists" -> "/v3/contacts/lists"
      [] fn \in {"get_senders", "_get_first_sender", "create_sender"} -> "/v3/senders"
      [] fn \in {"get_webhooks", "create_webhook"} -> "/v3/webhooks"
      [] fn = "get_smtp_templates" -> "/v3/smtp/templates"
      [] fn = "activate_ecommerce" -> "/v3/ecommerce/activate"
      [] fn = "track_event" -> "/api/v2/trackEvent"
      [] fn = "upsert_custom_object_records" -> "/v3/objects/{object_type}/batch/upsert"
      [] fn = "get_custom_object_records" -> "/v3/objects/{object_type}/records"

\* arguments that decide what a call does: add_contact_to_list's emails and ids
\* (given or not) and the email functions' sender_email (<<>> when not given)
NoArgs == [emails |-> FALSE, ids |-> FALSE, sender_email |-> <<>>, sender_name |-> ""]
ArgsOf(fn) ==
    IF fn = "add_contact_to_list"
    THEN { [NoArgs EXCEPT !.emails = e, !.ids = i] : e \in BOOLEAN, i \in BOOLEAN }
    ELSE IF fn \in EmailFns
    THEN { NoArgs, [NoArgs EXCEPT !.sender_email = <<"ops", "@", "acme", ".com">>,
                                  !.sender_name = "Ops"] }
    ELSE { NoArgs }

\* get_headers(): raises ValueError when API_KEY is None or ""
get_headers_inverted ==
    [raises |-> Truthy(API_KEY), headers |-> {"accept", "content-type", "api-key"}]
get_headers ==
    [raises |-> ~Truthy(API_KEY), headers |-> {"accept", "content-type", "api-key"}]

\* the sender an email function puts in its payload: `sender_email or DEFAULT_SENDER_EMAIL`
PayloadSender(fn, args) ==
    IF fn \in EmailFns
    THEN (IF NonEmpty(args.sender_email) THEN args.sender_email ELSE DEFAULT_SENDER_EMAIL)
    ELSE IF fn = "send_transactional_email_template" THEN DEFAULT_SENDER_EMAIL
    ELSE <<>>

Request(fn, args) ==
    [fn |-> fn, method |-> Method(fn), host |-> Host(fn), path |-> Path(fn),
     se |-> PayloadSender(fn, args)]

\* What a function does before its request reaches the network: NoResult when
\* the request is sent, the exception otherwise.  add_contact_to_list checks its
\* payload first; every function but track_event calls get_headers(); track_event
\* passes API_KEY itself as a header value, which httpx refuses to encode when it
\* is None and sends as it is when it is "".
PreRequest(fn, args) ==
    IF fn = "add_contact_to_list" /\ ~args.emails /\ ~args.ids THEN Raised("ValueError")
    ELSE IF fn = "track_event"
         THEN (IF API_KEY = None THEN Raised("TypeError") ELSE NoResult)
    ELSE IF get_headers.raises THEN Raised("ValueError")
    ELSE NoResult

\* `response.json() if response.content else {}`; response.json() of a body that
\* is not JSON raises
ParseRaises(r) == r.body.raw = "text"
Data(r) == IF r.body.raw = "empty" THEN EmptyMapping ELSE r.body.json

\* the summary two functions compute for print_result:
\* data.get("count"), len(data.get(key, []))
SummaryKey(fn) ==
    IF fn = "get_contacts_list" THEN "contacts"
    ELSE IF fn = "get_smtp_templates" THEN "templates"
    ELSE ""
SummaryRaises(fn, data) ==
    IF SummaryKey(fn) = "" THEN ""
    ELSE IF data.type # "dict" THEN "AttributeError"
    ELSE IF SummaryKey(fn) \in data.nulls THEN "TypeError"
    ELSE ""

\* print_result's first line
print_result(r) == IF is_success(r) THEN "ok" ELSE "failed"

\* `return data if response.is_success else None`
ReturnValue(r) == IF is_success(r) THEN Data(r) ELSE JNull

\* the exception httpx raises for a request that got no response
TransportFault(o) == IF o.transport THEN "TransportError" ELSE ""

Completion_swallows_transport(fn, o) ==
    IF o.transport THEN Returned(JNull, "")
    ELSE IF ParseRaises(o.r) THEN Raised("JSONDecodeError")
    ELSE IF SummaryRaises(fn, Data(o.r)) # "" THEN Raised(SummaryRaises(fn, Data(o.r)))
    ELSE Returned(ReturnValue(o.r), print_result(o.r))

\* How a function ends once the network has answered its request
Completion(fn, o) ==
    IF o.transport THEN Raised("TransportError")
    ELSE IF ParseRaises(o.r) THEN Raised("JSONDecodeError")
    ELSE IF SummaryRaises(fn, Data(o.r)) # "" THEN Raised(SummaryRaises(fn, Data(o.r)))
    ELSE Returned(ReturnValue(o.r), print_result(o.r))

----------------------------------------------------------------------------
(* Calls of the use-case functions by a caller outside the runner *)

Idle == [fn |-> "", args |-> NoArgs, state |-> "idle"]

\* the call up to the moment the request is on the wire (or the exception)
Enter(fn, args) ==
    /\ call' = [fn |-> fn, args |-> args,
                state |-> IF PreRequest(fn, args).outcome = "raised"
                          THEN "done" ELSE "waiting"]
    /\ result' = PreRequest(fn, args)
    /\ fault' = PreRequest(fn, args).exc
    /\ IF PreRequest(fn, args).outcome = "raised"
       THEN /\ nreq' = 0
            /\ UNCHANGED <<requests, openClients>>
       ELSE /\ nreq' = 1
            /\ requests' = Append(requests, Request(fn, args))
            /\ openClients' = openClients + 1

Leave_leaks_on_exception(o) ==
    /\ call' = [call EXCEPT !.state = "done"]
    /\ result' = Completion(call.fn, o)
    /\ fault' = TransportFault(o)
    /\ openClients' = IF Completion(call.fn, o).outcome = "raised"
                      THEN openClients ELSE openClients - 1
    /\ UNCHANGED <<requests, nreq>>

\* the rest of the call: the response is handled and the `with` block is left
Leave(o) ==
    /\ call' = [call EXCEPT !.state = "done"]
    /\ result' = Completion(call.fn, o)
    /\ fault' = TransportFault(o)
    /\ openClients' = openClients - 1
    /\ UNCHANGED <<requests, nreq>>

DirectCall(fn, args) ==
    /\ pc = "direct"
    /\ call.state \in {"idle", "done"}
    /\ ncalls < MaxCalls
    /\ Enter(fn, args)
    /\ ncalls' = ncalls + 1
    /\ response' = NoResponse
    /\ UNCHANGED <<config, pc, sender, sender_tuple, events, firstFailed, swallowed,
                   log, escaped>>

DirectReturn(o) ==
    /\ pc = "direct"
    /\ call.state = "waiting"
    /\ Leave(o)
    /\ response' = o.r
    /\ UNCHANGED <<config, pc, sender, sender_tuple, events, firstFailed, swallowed,
                   log, escaped, ncalls>>

NoSender == [email |-> <<>>, name |-> ""]
NoFailure == [step |-> "", exc |-> ""]

InitCommon ==
    /\ API_KEY \in ApiKeys
    /\ DEFAULT_SENDER_EMAIL \in SenderEmails
    /\ DEFAULT_RECIPIENT_PHONE \in Phones
    /\ call = Idle
    /\ openClients = 0
    /\ requests = <<>>
    /\ nreq = 0
    /\ response = NoResponse
    /\ result = NoResult
    /\ sender = NoSender
    /\ sender_tuple = NoSender
    /\ events = <<>>
    /\ firstFailed = NoFailure
    /\ swallowed = ""
    /\ fault = ""
    /\ log = {}
    /\ escaped = ""
    /\ ncalls = 0

InitCalls ==
    /\ InitCommon
    /\ skip_destructive = TRUE
    /\ pc = "direct"

NextCalls ==
    \/ \E fn \in UseCases : \E args \in ArgsOf(fn) : DirectCall(fn, args)
    \/ \E o \in Outcomes(Bodies) : DirectReturn(o)

SpecCalls == InitCalls /\ [][NextCalls]_vars

----------------------------------------------------------------------------
(* _get_first_sender *)

\* `except Exception: pass` of _get_first_sender: every exception a request can
\* raise is an Exception
_get_first_sender_catches_none(e) == FALSE
_get_first_sender_catches(e) == e \in ExceptionKinds

\* `data.get("senders") if isinstance(data, dict) else data`, as the list the
\* code goes on with (<<>> when the value is None or an empty list)
SendersOf(data) ==
    IF data.type = "dict"
    THEN (IF "senders" \in data.keys \ data.nulls THEN data.items ELSE <<>>)
    ELSE IF data.type = "list" THEN data.items
    ELSE <<>>

\* the body of the try block: [sender, exc], sender = NoSender standing for None
FirstSenderTry(o) ==
    IF o.transport THEN [sender |-> NoSender, exc |-> "TransportError"]
    ELSE IF ~(is_success(o.r) /\ o.r.body.raw # "empty")
         THEN [sender |-> NoSender, exc |-> ""]
    ELSE IF ParseRaises(o.r) THEN [sender |-> NoSender, exc |-> "JSONDecodeError"]
    ELSE LET senders == SendersOf(Data(o.r)) IN
         IF ~NonEmpty(senders) THEN [sender |-> NoSender, exc |-> ""]
         ELSE LET s == senders[1] IN
              IF ~s.isdict THEN [sender |-> NoSender, exc |-> "AttributeError"]
              ELSE IF NonEmpty(s.email) /\ Contains("@", s.email)
                   THEN [sender |-> [email |-> s.email,
                                     name |-> IF s.name # "" THEN s.name ELSE "Sender"],
                         exc |-> ""]
                   ELSE [sender |-> NoSender, exc |-> ""]

----------------------------------------------------------------------------
(* run_all *)

Catalogue ==
    << "Get Account", "Send Email (HTML)", "Send Email (Text)", "Send Email (Dynamic)",
       "Send Email (Tags)", "Send SMS", "Get Contacts", "Get Contact Lists",
       "Get Senders", "Get Webhooks", "Get SMTP Templates" >>

Steps == { Catalogue[i] : i \in 1..Len(Catalogue) }
EmailSteps == { Catalogue[i] : i \in 2..5 }

StepFn(step) ==
    CASE step = "Get Account" -> "get_account"
      [] step = "Send Email (HTML)" -> "send_transactional_email_html"
      [] step = "Send Email (Text)" -> "send_transactional_email_text"
      [] step = "Send Email (Dynamic)" -> "send_transactional_email_dynamic"
      [] step = "Send Email (Tags)" -> "send_transactional_email_with_tags"
      [] step = "Send SMS" -> "send_transactional_sms"
      [] step = "Get Contacts" -> "get_contacts_list"
      [] step = "Get Contact Lists" -> "get_contact_lists"
      [] step = "Get Senders" -> "get_senders"
      [] step = "Get Webhooks" -> "get_webhooks"
      [] step = "Get SMTP Templates" -> "get_smtp_templates"

AfterStep_swapped(step) ==
    CASE step = "Get Account" -> "emails"
      [] step = "Send Email (HTML)" -> "Send Email (Text)"
      [] step = "Send Email (Text)" -> "Send Email (Dynamic)"
      [] step = "Send Email (Dynamic)" -> "Send Email (Tags)"
      [] step = "Send Email (Tags)" -> "Send SMS"
      [] step = "Send SMS" -> "Get Contact Lists"
      [] step = "Get Contact Lists" -> "Get Contacts"
      [] step = "Get Contacts" -> "Get Senders"
      [] step = "Get Senders" -> "Get Webhooks"
      [] step = "Get Webhooks" -> "Get SMTP Templates"
      [] step = "Get SMTP Templates" -> "done"

\* the statement of run_all that follows a step (pc is the step about to run,
\* "emails" the `if not skip_destructive` of line 678, "lookup" the call of
\* _get_first_sender in flight)
AfterStep(step) ==
    CASE step = "Get Account" -> "emails"
      [] step = "Send Email (HTML)" -> "Send Email (Text)"
      [] step = "Send Email (Text)" -> "Send Email (Dynamic)"
      [] step = "Send Email (Dynamic)" -> "Send Email (Tags)"
      [] step = "Send Email (Tags)" -> "Send SMS"
      [] step = "Send SMS" -> "Get Contacts"
      [] step = "Get Contacts" -> "Get Contact Lists"
      [] step = "Get Contact Lists" -> "Get Senders"
      [] step = "Get Senders" -> "Get Webhooks"
      [] step = "Get Webhooks" -> "Get SMTP Templates"
      [] step = "Get SMTP Templates" -> "done"

\* the arguments run_all passes: sender_email=se, sender_name=sn to the emails
StepArgs(step) ==
    IF step \in EmailSteps
    THEN [NoArgs EXCEPT !.sender_email = sender_tuple.email,
                        !.sender_name = sender_tuple.name]
    ELSE NoArgs

\* `except Exception as e` of _safe_run
_safe_run_catches_ValueError(e) == e = "ValueError"
_safe_run_catches(e) == e \in ExceptionKinds

\* line 680: the configured sender, unless it is a placeholder
env_sender_any == DEFAULT_SENDER_EMAIL
env_sender ==
    IF /\ Contains("@", DEFAULT_SENDER_EMAIL)
       /\ ~Contains("example", DEFAULT_SENDER_EMAIL)
       /\ ~Contains("yourdomain", DEFAULT_SENDER_EMAIL)
    THEN DEFAULT_SENDER_EMAIL ELSE <<>>

SenderTuple_prefers_env(s) ==
    IF NonEmpty(env_sender) THEN [email |-> env_sender, name |-> DEFAULT_SENDER_NAME]
    ELSE s

\* line 681: sender or (env_sender and (env_sender, DEFAULT_SENDER_NAME))
SenderTuple(s) ==
    IF s # NoSender THEN s
    ELSE IF NonEmpty(env_sender) THEN [email |-> env_sender, name |-> DEFAULT_SENDER_NAME]
    ELSE NoSender

\* line 694: `not skip_destructive and DEFAULT_RECIPIENT_PHONE`
SmsEnabled_ignores_skip == Truthy(DEFAULT_RECIPIENT_PHONE)
SmsEnabled_not_None == ~skip_destructive /\ DEFAULT_RECIPIENT_PHONE # None
SmsEnabled == ~skip_destructive /\ Truthy(DEFAULT_RECIPIENT_PHONE)

Event(step, ev) == [step |-> step, ev |-> ev]

\* what _safe_run does with the way fn ended: go on with the next statement of
\* run_all, whether fn returned or raised an exception the handler catches
SafeRunEnd(step, res) ==
    IF res.outcome = "raised" /\ ~_safe_run_catches(res.exc)
    THEN /\ pc' = "aborted"
         /\ escaped' = res.exc
         /\ UNCHANGED firstFailed
    ELSE /\ pc' = AfterStep(step)
         /\ firstFailed' = IF res.outcome = "raised" /\ firstFailed = NoFailure
                           THEN [step |-> step, exc |-> res.exc]
                           ELSE firstFailed
         /\ UNCHANGED escaped

\* _safe_run(name, fn, ...) up to fn's request, or to the exception fn raises
\* before it
SafeRun(step) ==
    /\ pc = step
    /\ call.state # "waiting"
    /\ step = "Send SMS" => SmsEnabled
    /\ Enter(StepFn(step), StepArgs(step))
    /\ IF PreRequest(StepFn(step), StepArgs(step)).outcome = "raised"
       THEN /\ events' = events \o <<Event(step, "start"), Event(step, "end")>>
            /\ SafeRunEnd(step, PreRequest(StepFn(step), StepArgs(step)))
       ELSE /\ events' = Append(events, Event(step, "start"))
            /\ UNCHANGED <<pc, firstFailed, escaped>>
    /\ UNCHANGED <<config, response, sender, sender_tuple, swallowed, log, ncalls>>

\* fn's request is answered: fn returns or raises, _safe_run handles it
SafeRunReturn(o) ==
    /\ pc \in Steps
    /\ call.state = "waiting"
    /\ Leave(o)
    /\ events' = Append(events, Event(pc, "end"))
    /\ SafeRunEnd(pc, Completion(call.fn, o))
    /\ UNCHANGED <<config, response, sender, sender_tuple, swallowed, log, ncalls>>

\* lines 680-689 once _get_first_sender has ended with [sender, exc]
ResolveSender(got) ==
    IF got.exc # "" /\ ~_get_first_sender_catches(got.exc)
    THEN /\ pc' = "aborted"
         /\ escaped' = got.exc
         /\ UNCHANGED <<sender, sender_tuple, swallowed, log>>
    ELSE /\ sender' = got.sender
         /\ swallowed' = got.exc
         /\ sender_tuple' = SenderTuple(got.sender)
         /\ IF SenderTuple(got.sender) # NoSender
            THEN pc' = "Send Email (HTML)" /\ UNCHANGED log
            ELSE pc' = "Send SMS" /\ log' = log \cup {"No sender"}
         /\ UNCHANGED escaped

\* line 678 with skip_destructive: the emails are skipped
SkipEmails ==
    /\ pc = "emails"
    /\ skip_destructive
    /\ pc' = "Send SMS"
    /\ log' = log \cup {"Skipping email sends"}
    /\ UNCHANGED <<config, call, openClients, requests, nreq, response, result, sender,
                   sender_tuple, events, firstFailed, swallowed, fault, escaped, ncalls>>

\* line 679: _get_first_sender() up to its request; get_headers() raising in it is
\* caught in it
LookupSender ==
    /\ pc = "emails"
    /\ ~skip_destructive
    /\ result' = NoResult
    /\ fault' = PreRequest("_get_first_sender", NoArgs).exc
    /\ IF PreRequest("_get_first_sender", NoArgs).outcome = "raised"
       THEN /\ call' = [fn |-> "_get_first_sender", args |-> NoArgs, state |-> "done"]
            /\ nreq' = 0
            /\ UNCHANGED <<requests, openClients>>
            /\ events' = events \o <<Event("_get_first_sender", "start"),
                                     Event("_get_first_sender", "end")>>
            /\ ResolveSender([sender |-> NoSender,
                              exc |-> PreRequest("_get_first_sender", NoArgs).exc])
       ELSE /\ call' = [fn |-> "_get_first_sender", args |-> NoArgs, state |-> "waiting"]
            /\ nreq' = 1
            /\ requests' = Append(requests, Request("_get_first_sender", NoArgs))
            /\ openClients' = openClients + 1
            /\ events' = Append(events, Event("_get_first_sender", "start"))
            /\ pc' = "lookup"
            /\ UNCHANGED <<sender, sender_tuple, swallowed, log, escaped>>
    /\ UNCHANGED <<config, response, firstFailed, ncalls>>

\* the request of _get_first_sender is answered
LookupReturn(o) ==
    /\ pc = "lookup"
    /\ call.state = "waiting"
    /\ call' = [call EXCEPT !.state = "done"]
    /\ result' = NoResult
    /\ fault' = TransportFault(o)
    /\ openClients' = openClients - 1
    /\ events' = Append(events, Event("_get_first_sender", "end"))
    /\ ResolveSender(FirstSenderTry(o))
    /\ UNCHANGED <<config, requests, nreq, response, firstFailed, ncalls>>

\* lines 696-699: no SMS is sent, a hint is printed
SkipSms ==
    /\ pc = "Send SMS"
    /\ call.state # "waiting"
    /\ ~SmsEnabled
    /\ pc' = AfterStep("Send SMS")
    /\ log' = log \cup {IF ~skip_destructive THEN "SMS: Add BREVO_TEST_PHONE"
                        ELSE "Skipping SMS"}
    /\ UNCHANGED <<config, call, openClients, requests, nreq, response, result, sender,
                   sender_tuple, events, firstFailed, swallowed, fault, escaped, ncalls>>

InitRun ==
    /\ InitCommon
    /\ skip_destructive \in BOOLEAN
    /\ pc = "Get Account"

NextRun ==
    \/ \E step \in Steps : SafeRun(step)
    \/ \E o \in Outcomes(Bodies) : SafeRunReturn(o)
    \/ SkipEmails
    \/ LookupSender
    \/ \E o \in Outcomes(Bodies \cup SenderBodies) : LookupReturn(o)
    \/ SkipSms

Spec == InitRun /\ [][NextRun]_vars

\* run_all is one thread of straight-line code: a step that can be taken is taken
FairSpec == Spec /\ WF_vars(NextRun)

----------------------------------------------------------------------------
(* Properties *)

\* the steps of the catalogue _safe_run has been called for
Attempted == { events[i].step : i \in { j \in 1..Len(events) : events[j].ev = "start" } }
                 \cap Steps

IndexOf(step) == CHOOSE i \in 1..Len(Catalogue) : Catalogue[i] = step

\* a sender identity can be resolved: the lookup returned one, or the configured
\* email has an "@" and is no placeholder
SenderResolvable ==
    \/ sender # NoSender
    \/ /\ Contains("@", DEFAULT_SENDER_EMAIL)
       /\ ~Contains("example", DEFAULT_SENDER_EMAIL)
       /\ ~Contains("yourdomain", DEFAULT_SENDER_EMAIL)

PhoneConfigured == DEFAULT_RECIPIENT_PHONE # None /\ DEFAULT_RECIPIENT_PHONE # ""

\* the steps the configuration enables
Configured(step) ==
    IF step \in EmailSteps THEN ~skip_destructive /\ SenderResolvable
    ELSE IF step = "Send SMS" THEN ~skip_destructive /\ PhoneConfigured
    ELSE TRUE

\* C1: a failing step never aborts run_all: whatever exception a step raised,
\* run_all is not left by it, and when run_all is over every step the
\* configuration enables has been attempted.
C1_FailureNeverAborts ==
    /\ pc # "aborted"
    /\ pc = "done" => \A step \in Steps : Configured(step) => step \in Attempted

C1_Witness ==
    /\ pc = "done"
    /\ firstFailed = [step |-> "Get Account", exc |-> "TransportError"]
    /\ Attempted = Steps

\* C2: without a credential (API_KEY None or "") every use-case call fails, by
\* raising, before any request: it has issued no request and ends with an exception.
C2_NoCredentialNoRequest ==
    ((API_KEY = None \/ API_KEY = "") /\ call.state # "idle") =>
        /\ nreq = 0
        /\ result.outcome = "raised"

\* C3 as stated: a destructive step (the four emails, the SMS) is attempted only
\* with skip_destructive false and a resolvable sender; the SMS also needs a phone.
C3_DestructiveNeedsSender ==
    \A step \in Attempted \cap (EmailSteps \cup {"Send SMS"}) :
        /\ ~skip_destructive
        /\ SenderResolvable
        /\ step = "Send SMS" => PhoneConfigured

\* C3 amended: an email step is attempted only with skip_destructive false and a
\* resolvable sender; the SMS step is attempted only with skip_destructive false
\* and a configured phone, with or without a sender.
C3_DestructiveGating ==
    \A step \in Attempted :
        /\ step \in EmailSteps => ~skip_destructive /\ SenderResolvable
        /\ step = "Send SMS" => ~skip_destructive /\ PhoneConfigured

C3_Witness ==
    /\ pc = "done"
    /\ "Send SMS" \in Attempted
    /\ "Send Email (Tags)" \in Attempted
    /\ sender = NoSender

\* C4: a call that received a 4xx or 5xx response does not raise, it returns None
\* (stated for calls made with a credential, where every function sends its request).
C4_ErrorStatusNeverRaises ==
    (Truthy(API_KEY) /\ call.state = "done" /\ response.status >= 400) =>
        /\ result.outcome = "returned"
        /\ result.ret = JNull

\* C5: a call that received a response reports success (returns a value that is
\* not None) exactly when the status is 2xx (stated for calls made with a credential).
C5_SuccessIff2xx ==
    (Truthy(API_KEY) /\ call.state = "done" /\ response # NoResponse) =>
        ((result.outcome = "returned" /\ result.ret # JNull) <=> is_success(response))

\* a body that is empty, is not JSON, or is JSON but no object
UnexpectedBody(b) == b.raw \in {"empty", "text"} \/ b.json.type # "dict"

\* C6: a response whose body is empty or is not the expected JSON object does not
\* make the call raise, and its body counts as the empty mapping (stated for calls
\* made with a credential).
C6_UnexpectedBodyIsEmptyMapping ==
    (/\ Truthy(API_KEY) /\ call.state = "done"
     /\ response # NoResponse /\ UnexpectedBody(response.body)) =>
        /\ result.outcome = "returned"
        /\ is_success(response) => result.ret = EmptyMapping

\* C7 as stated: with a credential every finished call has issued exactly one
\* request.
C7_ExactlyOneRequest ==
    (Truthy(API_KEY) /\ call.state = "done") => nreq = 1

\* C7 amended: with a credential a call issues exactly one request, whatever the
\* outcome, except add_contact_to_list called with neither emails nor ids, which
\* raises ValueError before any request.
C7_OneRequestUnlessRejected ==
    (Truthy(API_KEY) /\ call.state # "idle") =>
        IF call.fn = "add_contact_to_list" /\ ~call.args.emails /\ ~call.args.ids
        THEN nreq = 0 /\ result = Raised("ValueError")
        ELSE nreq = 1

C7_Witness ==
    /\ Truthy(API_KEY)
    /\ call.state = "done"
    /\ result = Raised("TransportError")
    /\ nreq = 1

\* C8: the steps attempted start in catalogue order, none twice, and every call
\* has ended before the next one starts.
C8_CatalogueOrder ==
    /\ \A i, j \in 1..Len(events) :
           (/\ i < j
            /\ events[i].ev = "start" /\ events[j].ev = "start"
            /\ events[i].step \in Steps /\ events[j].step \in Steps)
               => IndexOf(events[i].step) < IndexOf(events[j].step)
    /\ \A i \in 1..Len(events) :
           IF i % 2 = 1
           THEN events[i].ev = "start"
           ELSE events[i] = Event(events[i - 1].step, "end")
    /\ call.state = "waiting" <=> Len(events) % 2 = 1

C8_Witness ==
    /\ pc = "done"
    /\ Attempted = Steps
    /\ Len(events) = 2 * (Len(Catalogue) + 1)

\* C9: run_all(skip_destructive=False) always ends normally: it reaches its last
\* statement and no exception leaves it, whatever the steps and the sender
\* lookup did.
C9_RunAllTerminates ==
    ~skip_destructive => <>[](pc = "done" /\ escaped = "")

C9_Witness ==
    /\ pc = "done"
    /\ ~skip_destructive
    /\ swallowed = "TransportError"
    /\ firstFailed # NoFailure
    /\ escaped = ""

\* C10: with skip_destructive false and no recipient phone, no request goes to the
\* SMS endpoint, the SMS step is not attempted, and once run_all is past it the
\* hint has been printed.
C10_NoPhoneNoSms ==
    (~skip_destructive /\ ~PhoneConfigured) =>
        /\ \A i \in 1..Len(requests) : requests[i].path # "/v3/transactionalSMS/send"
        /\ "Send SMS" \notin Attempted
        /\ (pc = "done" \/ (pc \in Steps /\ IndexOf(pc) > IndexOf("Send SMS")))
               => "SMS: Add BREVO_TEST_PHONE" \in log

C10_Witness ==
    /\ pc = "done"
    /\ ~skip_destructive
    /\ DEFAULT_RECIPIENT_PHONE = ""
    /\ "SMS: Add BREVO_TEST_PHONE" \in log
    /\ firstFailed # NoFailure

\* C11: every call of run_all holds its own HTTP client only while it runs: at most
\* one client is open, one is open only while a call waits for its response, and
\* none is open between two steps or when run_all is over, however the call ended.
C11_OneClientPerStep ==
    /\ openClients \in {0, 1}
    /\ openClients = 1 <=> call.state = "waiting"
    /\ pc = "done" => openClients = 0

C11_Witness ==
    /\ pc = "done"
    /\ ~skip_destructive
    /\ Len(requests) = Len(Catalogue) + 1
    /\ firstFailed.exc = "TransportError"
    /\ openClients = 0

\* the call that ended last, "" while a call is in flight or before the first one
LastEnded ==
    IF events # <<>> /\ events[Len(events)].ev = "end"
    THEN events[Len(events)].step ELSE ""

\* C12 as stated: a configuration or transport failure of a request always leaves
\* the function that made the request as an exception, and only _safe_run catches
\* it: nothing below the runner has caught one.
C12_OnlySafeRunCatches ==
    /\ (LastEnded \in Steps /\ fault # "") =>
           result = Raised(fault) /\ firstFailed # NoFailure
    /\ swallowed \notin {"ValueError", "TransportError"}

\* C12 amended: a configuration or transport failure of a request leaves every
\* use-case function as an exception and is caught by _safe_run; the one function
\* that catches its own is _get_first_sender, the runner's helper, which returns
\* None instead.
C12_FailuresReachSafeRun ==
    /\ (LastEnded \in Steps /\ fault # "") =>
           result = Raised(fault) /\ firstFailed # NoFailure
    /\ (LastEnded = "_get_first_sender" /\ fault # "") =>
           swallowed = fault /\ sender = NoSender /\ escaped = ""
    /\ swallowed # "" =>
           \E i \in 1..Len(events) : events[i] = Event("_get_first_sender", "end")

C12_Witness ==
    /\ LastEnded = "Get SMTP Templates"
    /\ fault = "TransportError"
    /\ result = Raised("TransportError")
    /\ swallowed = "TransportError"

\* run_all has gone past its four email steps
PastEmails == pc = "done" \/ (pc \in Steps /\ IndexOf(pc) >= IndexOf("Send SMS"))

\* the identity the emails are to carry: the remote first sender when the lookup
\* returned one, the configured sender otherwise
ExpectedIdentity ==
    IF sender # NoSender THEN sender
    ELSE [email |-> DEFAULT_SENDER_EMAIL, name |-> DEFAULT_SENDER_NAME]

\* C13: in a run with skip_destructive false the four email steps are attempted
\* all or none; they are attempted only with a resolvable sender, and each is
\* called with, and sends, the same identity: the remote first sender (an email
\* with "@") when the lookup returned one, the configured sender otherwise.
C13_EmailsShareSender ==
    ~skip_destructive =>
        /\ PastEmails => (EmailSteps \subseteq Attempted \/ EmailSteps \cap Attempted = {})
        /\ EmailSteps \cap Attempted # {} =>
               /\ SenderResolvable
               /\ sender # NoSender => Contains("@", sender.email)
               /\ call.fn \in EmailFns =>
                      /\ call.args.sender_email = ExpectedIdentity.email
                      /\ call.args.sender_name = ExpectedIdentity.name
               /\ \A i \in 1..Len(requests) :
                      requests[i].fn \in EmailFns => requests[i].se = ExpectedIdentity.email

C13_Witness ==
    /\ pc = "done"
    /\ ~skip_destructive
    /\ EmailSteps \subseteq Attempted
    /\ sender # NoSender
    /\ DEFAULT_SENDER_EMAIL = <<"me", "@", "acme", ".com">>
    /\ Cardinality({ i \in 1..Len(requests) : requests[i].fn \in EmailFns }) = 4

\* the read endpoints of the catalogue, in catalogue order
ReadPaths ==
    << "/v3/account", "/v3/contacts", "/v3/contacts/lists", "/v3/senders",
       "/v3/webhooks", "/v3/smtp/templates" >>

ReadIndex(path) == CHOOSE k \in 1..Len(ReadPaths) : ReadPaths[k] = path

\* C14: with skip_destructive true the sender lookup is not performed, no POST is
\* sent, and the requests issued are GETs of the six read endpoints, each at most
\* once and in catalogue order.
C14_SkipDestructiveReadsOnly ==
    skip_destructive =>
        /\ \A i \in 1..Len(events) : events[i].step # "_get_first_sender"
        /\ \A i \in 1..Len(requests) :
               /\ requests[i].method = "GET"
               /\ requests[i].host = BASE_URL
               /\ \E k \in 1..Len(ReadPaths) : ReadPaths[k] = requests[i].path
        /\ \A i, j \in 1..Len(requests) :
               i < j => ReadIndex(requests[i].path) < ReadIndex(requests[j].path)

C14_Witness ==
    /\ pc = "done"
    /\ skip_destructive
    /\ Len(requests) = Len(ReadPaths)
    /\ DEFAULT_RECIPIENT_PHONE = "919876543210"
    /\ firstFailed # NoFailure

====
